---- MODULE Spec2Model ----
(***************************************************************************)
(* Model of clap's error reporting (src/src/error/mod.rs): the Error       *)
(* aggregate, its factories, the Raw/Formatted Message, rendering, print   *)
(* and exit.                                                               *)
(*                                                                         *)
(* Text is a sequence of tokens.  A token is either one character of       *)
(* caller-supplied data ("a", " ", "-") or one whole string literal of the *)
(* source, or a part of one ("error:", "Did you mean ").  Concatenation   *)
(* is \o.  A backquote inside a literal of the source is written ' here.   *)
(***************************************************************************)
EXTENDS Integers, Sequences, FiniteSets

VARIABLES err, pc, call, stdout, stderr, ret, exits, events, inserted

vars == <<err, pc, call, stdout, stderr, ret, exits, events, inserted>>

(* ------------------------------ bounds --------------------------------- *)

\* longest list of valid values handed to a factory
MaxVals == 2

\* largest occurrence / value count handed to a factory
MaxCount == 3

\* most context entries appended by direct insert/extend calls
MaxCtx == 3

\* most calls of print() on one error outside exit()
MaxPrints == 1

(* ----------------------------- constants ------------------------------- *)

USAGE_CODE == 2

SUCCESS_CODE == 0

(* ------------------------------- options ------------------------------- *)

None == [tag |-> "None"]

Some(x) == [tag |-> "Some", val |-> x]

IsSome(o) == o.tag = "Some"

(* ----------------------------- text helpers ---------------------------- *)

\* all sequences over S of length lo..hi
SeqsOf(S, lo, hi) == UNION {[1..n -> S] : n \in lo..hi}

Whitespace == {" ", "\t", "\n"}

\* str::contains(char::is_whitespace)
contains_whitespace(s) == \E i \in 1..Len(s) : s[i] \in Whitespace

\* one character as {:?} writes it inside a string literal
EscapeChar(ch) ==
    CASE ch = "\"" -> <<"\\", "\"">>
      [] ch = "\\" -> <<"\\", "\\">>
      [] ch = "\t" -> <<"\\", "t">>
      [] ch = "\n" -> <<"\\", "n">>
      [] OTHER     -> <<ch>>

RECURSIVE EscapeDebug(_)
EscapeDebug(s) ==
    IF s = <<>> THEN <<>> ELSE EscapeChar(Head(s)) \o EscapeDebug(Tail(s))

\* format!("{:?}", s) of a string: quoted, with escapes
Debug(s) == <<"\"">> \o EscapeDebug(s) \o <<"\"">>

DigitChars == <<"0", "1", "2", "3", "4", "5", "6", "7", "8", "9">>

\* usize::to_string
RECURSIVE to_string(_)
to_string(n) ==
    IF n < 10 THEN <<DigitChars[n + 1]>>
    ELSE to_string(n \div 10) \o <<DigitChars[(n % 10) + 1]>>

\* str::starts_with('-')
starts_with_dash(s) == Len(s) > 0 /\ s[1] = "-"

\* sub occurs in s as a contiguous run of tokens
Contains(s, sub) ==
    \E i \in 0..(Len(s) - Len(sub)) : SubSeq(s, i + 1, i + Len(sub)) = sub

\* s ends with suf
EndsWith(s, suf) ==
    Len(s) >= Len(suf) /\ SubSeq(s, Len(s) - Len(suf) + 1, Len(s)) = suf

(* ------------------------------ ErrorKind ------------------------------ *)

ErrorKind ==
    {"InvalidValue", "UnknownArgument", "InvalidSubcommand",
     "UnrecognizedSubcommand", "EmptyValue", "NoEquals", "ValueValidation",
     "TooManyValues", "TooFewValues", "TooManyOccurrences",
     "WrongNumberOfValues", "ArgumentConflict", "MissingRequiredArgument",
     "MissingSubcommand", "UnexpectedMultipleUsage", "InvalidUtf8",
     "DisplayHelp", "DisplayHelpOnMissingArgumentOrSubcommand",
     "DisplayVersion", "ArgumentNotFound", "Io", "Format"}

\* kinds whose ErrorKind::as_str() is None
NoSummaryKinds ==
    {"DisplayHelp", "DisplayHelpOnMissingArgumentOrSubcommand",
     "DisplayVersion", "Io", "Format"}

\* ErrorKind::as_str: the static default summary of a kind, if it has one
as_str(kind) ==
    IF kind \in NoSummaryKinds THEN None ELSE Some(<<"summary:" , kind>>)

ContextKind == {"InvalidArg", "ValidArg", "ValidValue", "Usage"}

CtxNone == [tag |-> "None"]

CtxValue(v) == [tag |-> "Value", v |-> v]

CtxValues(vs) == [tag |-> "Values", vs |-> vs]

ColorChoice == {"Auto", "Always", "Never"}

(* ------------------------------ Colorizer ------------------------------ *)

\* Colorizer::new(use_stderr, color_when)
ColorizerNew(use_stderr, color_when) ==
    [use_stderr |-> use_stderr, color_when |-> color_when, pieces |-> <<>>]

Push(c, style, text) ==
    [c EXCEPT !.pieces = Append(@, [style |-> style, text |-> text])]

c_none(c, text) == Push(c, "none", text)

c_good(c, text) == Push(c, "good", text)

c_warning(c, text) == Push(c, "warning", text)

c_error(c, text) == Push(c, "error", text)

\* impl Display for Colorizer: the pieces' text, in order, without styling
RECURSIVE Concat(_)
Concat(pieces) ==
    IF pieces = <<>> THEN <<>> ELSE Head(pieces).text \o Concat(Tail(pieces))

Rendered(c) == Concat(c.pieces)

\* the stream Colorizer::print writes to
Stream(c) == IF c.use_stderr THEN "stderr" ELSE "stdout"

(* --------------------------------- App --------------------------------- *)

\* the owning command, as far as the error module reads it
Apps ==
    {[color |-> "Never", WaitOnError |-> FALSE, DisableHelpFlag |-> FALSE,
      has_subcommands |-> FALSE, DisableHelpSubcommand |-> FALSE,
      usage |-> <<"USAGE:\n    prog [OPTIONS]">>],
     [color |-> "Always", WaitOnError |-> TRUE, DisableHelpFlag |-> TRUE,
      has_subcommands |-> TRUE, DisableHelpSubcommand |-> FALSE,
      usage |-> <<"USAGE:\n    prog <SUBCOMMAND>">>],
     [color |-> "Auto", WaitOnError |-> TRUE, DisableHelpFlag |-> TRUE,
      has_subcommands |-> TRUE, DisableHelpSubcommand |-> TRUE,
      usage |-> <<"USAGE:\n    prog">>]}

get_color(app) == app.color

render_usage(app) == app.usage

(* ------------------------- free helper functions ----------------------- *)

start_error(c) == c_none(c_error(c, <<"error:">>), <<" ">>)

put_usage(c, usage) == c_none(c_none(c, <<"\n\n">>), usage)

get_help_flag(app) ==
    IF ~app.DisableHelpFlag THEN Some(<<"--help">>)
    ELSE IF app.has_subcommands /\ ~app.DisableHelpSubcommand
         THEN Some(<<"help">>)
         ELSE None

try_help(c, help) ==
    IF IsSome(help)
    THEN c_none(c_good(c_none(c, <<"\n\nFor more information try ">>),
                       help.val), <<"\n">>)
    ELSE c_none(c, <<"\n">>)

\* an escape that never quotes
escape_never(s) == s

escape(s) == IF contains_whitespace(s) THEN Debug(s) ELSE s

(* -------------------------------- Message ------------------------------ *)

Raw(s) == [tag |-> "Raw", s |-> s]

Formatted(c) == [tag |-> "Formatted", c |-> c]

\* impl From<String> for Message
MessageFromString(inner) == Raw(inner)

\* impl From<Colorizer> for Message
MessageFromColorizer(inner) == Formatted(inner)

\* a format that wraps an already Formatted message once more
MessageFormatAppending(m, app, usage) ==
    IF m.tag = "Raw"
    THEN Formatted(
           try_help(
             put_usage(
               c_none(start_error(ColorizerNew(TRUE, get_color(app))), m.s),
               usage),
             get_help_flag(app)))
    ELSE Formatted(try_help(put_usage(m.c, usage), get_help_flag(app)))

\* Message::format
MessageFormat(m, app, usage) ==
    IF m.tag = "Raw"
    THEN Formatted(
           try_help(
             put_usage(
               c_none(start_error(ColorizerNew(TRUE, get_color(app))), m.s),
               usage),
             get_help_flag(app)))
    ELSE m

\* a formatted() whose Raw arm ends the text like a synthesized one
MessageFormattedWithHint(m) ==
    IF m.tag = "Raw"
    THEN try_help(c_none(start_error(ColorizerNew(TRUE, "Never")), m.s), None)
    ELSE m.c

\* Message::formatted
MessageFormatted(m) ==
    IF m.tag = "Raw"
    THEN c_none(start_error(ColorizerNew(TRUE, "Never")), m.s)
    ELSE m.c

(* --------------------------------- Error ------------------------------- *)

\* Error::new; Backtrace::new() is None without the "debug" feature
ErrorNew(kind) ==
    [kind |-> kind, info |-> <<>>,
     inner |-> [kind |-> kind, context |-> <<>>, message |-> None,
                source |-> None, help_flag |-> None, color_when |-> "Never",
                wait_on_exit |-> FALSE, backtrace |-> None]]

\* a set_message that stores nothing
set_message_dropped(e, m) == e

set_message(e, m) == [e EXCEPT !.inner.message = Some(m)]

set_info(e, info) == [e EXCEPT !.info = info]

set_source(e, source) == [e EXCEPT !.inner.source = Some(source)]

set_color(e, color_when) == [e EXCEPT !.inner.color_when = color_when]

set_help_flag(e, help_flag) == [e EXCEPT !.inner.help_flag = help_flag]

set_wait_on_exit(e, yes) == [e EXCEPT !.inner.wait_on_exit = yes]

\* a with_app that also drops the message
with_app_clearing(e, app) ==
    set_help_flag(
      set_color(set_wait_on_exit([e EXCEPT !.inner.message = None],
                                 app.WaitOnError),
                get_color(app)),
      get_help_flag(app))

with_app(e, app) ==
    set_help_flag(
      set_color(set_wait_on_exit(e, app.WaitOnError), get_color(app)),
      get_help_flag(app))

for_app(kind, app, colorizer, info) ==
    set_info(with_app(set_message(ErrorNew(kind), Formatted(colorizer)), app),
             info)

\* Error::raw: message.to_string() becomes a Raw message
ErrorRaw(kind, text) == set_message(ErrorNew(kind), Raw(text))

\* Error::kind
kind_of(e) == e.inner.kind

\* Error::context
context(e) == e.inner.context

\* use_stderr with the third help kind sent to stdout as well
use_stderr_all_help(e) ==
    ~(kind_of(e) \in {"DisplayHelp", "DisplayVersion",
                      "DisplayHelpOnMissingArgumentOrSubcommand"})

use_stderr(e) == ~(kind_of(e) \in {"DisplayHelp", "DisplayVersion"})

\* an insert that replaces the value of an entry of the same kind
insert_context_replacing(e, k, v) ==
    LET ctx == e.inner.context
    IN IF \E i \in DOMAIN ctx : ctx[i][1] = k
       THEN [e EXCEPT !.inner.context =
                         [i \in DOMAIN ctx |->
                            IF ctx[i][1] = k THEN <<k, v>> ELSE ctx[i]]]
       ELSE [e EXCEPT !.inner.context = Append(@, <<k, v>>)]

insert_context_unchecked(e, k, v) ==
    [e EXCEPT !.inner.context = Append(@, <<k, v>>)]

extend_context_unchecked(e, pairs) ==
    [e EXCEPT !.inner.context = @ \o pairs]

\* iter().find_map: the value of the first pair whose kind is k
RECURSIVE FindMap(_, _)
FindMap(ctx, k) ==
    IF ctx = <<>> THEN None
    ELSE IF Head(ctx)[1] = k THEN Some(Head(ctx)[2])
         ELSE FindMap(Tail(ctx), k)

get_context(e, k) == FindMap(e.inner.context, k)

\* Error::format
ErrorFormat(e, app) ==
    LET usage == render_usage(app)
        m == e.inner.message
        e1 == IF IsSome(m)
              THEN [e EXCEPT !.inner.message =
                                 Some(MessageFormat(m.val, app, usage))]
              ELSE e
    IN with_app(e1, app)

\* impl Error for Error: source()
source(e) == e.inner.source

\* the plural chosen from one on
singular_or_plural_from_one(n) ==
    IF n >= 1 THEN <<" were provided">> ELSE <<" was provided">>

singular_or_plural(n) ==
    IF n > 1 THEN <<" were provided">> ELSE <<" was provided">>

(* ------------------------------- factories ----------------------------- *)

N(text) == [style |-> "none", text |-> text]

G(text) == [style |-> "good", text |-> text]

W(text) == [style |-> "warning", text |-> text]

\* a run of c.none / c.good / c.warning calls, in order
Write(c, ps) == [c EXCEPT !.pieces = @ \o ps]

\* the caller's colorizer for help / version output
HelpColorizer(use_err, app, text) ==
    c_none(ColorizerNew(use_err, get_color(app)), text)

display_help(app, colorizer) == for_app("DisplayHelp", app, colorizer, <<>>)

display_help_error(app, colorizer) ==
    for_app("DisplayHelpOnMissingArgumentOrSubcommand", app, colorizer, <<>>)

display_version(app, colorizer) ==
    for_app("DisplayVersion", app, colorizer, <<>>)

argument_conflict(app, arg, others, usage) ==
    LET info == others
        ctx == CASE Len(others) = 0 -> CtxNone
                 [] Len(others) = 1 -> CtxValue(others[Len(others)])
                 [] OTHER -> CtxValues(others)
    IN extend_context_unchecked(
         set_info(with_app(ErrorNew("ArgumentConflict"), app), info),
         << <<"InvalidArg", CtxValue(arg)>>,
            <<"ValidArg", ctx>>,
            <<"Usage", CtxValue(usage)>> >>)

empty_value(app, good_vals, arg, usage) ==
    LET info == <<arg>>
        e == extend_context_unchecked(
               set_info(with_app(ErrorNew("EmptyValue"), app), info),
               << <<"InvalidArg", CtxValue(arg)>>,
                  <<"Usage", CtxValue(usage)>> >>)
    IN IF good_vals # <<>>
       THEN insert_context_unchecked(e, "ValidValue", CtxValues(good_vals))
       ELSE e

no_equals(app, arg, usage) ==
    LET info == <<arg>>
    IN extend_context_unchecked(
         set_info(with_app(ErrorNew("NoEquals"), app), info),
         << <<"InvalidArg", CtxValue(arg)>>,
            <<"Usage", CtxValue(usage)>> >>)

\* good_vals.split_last(): every element but the last followed by ", "
RECURSIVE JoinGood(_)
JoinGood(vals) ==
    IF vals = <<>> THEN <<>>
    ELSE IF Len(vals) = 1 THEN <<G(vals[1])>>
         ELSE <<G(Head(vals)), N(<<", ">>)>> \o JoinGood(Tail(vals))

\* Vec::pop on the result of suggestions::did_you_mean
Pop(v) == IF v = <<>> THEN None ELSE Some(v[Len(v)])

\* the valid values kept as given, none quoted
quote_good_vals_never(good_vals) == good_vals

\* lines 331-340: the valid values as they are shown and kept in info
quote_good_vals(good_vals) ==
    [i \in 1..Len(good_vals) |->
       IF contains_whitespace(good_vals[i])
       THEN Debug(good_vals[i]) ELSE good_vals[i]]

\* a suggestion line written whether or not there is a candidate
invalid_value_suffix_always(c, suffix) ==
    Write(c, <<N(<<"\n\n\t", "Did you mean ">>),
               G(Debug(IF IsSome(suffix) THEN suffix.val ELSE <<>>)),
               N(<<"?">>)>>)

\* lines 360-364: the suggestion line of invalid_value
invalid_value_suffix(c, suffix) ==
    IF IsSome(suffix)
    THEN Write(c, <<N(<<"\n\n\t", "Did you mean ">>),
                    G(Debug(suffix.val)), N(<<"?">>)>>)
    ELSE c

\* dym is the vector returned by suggestions::did_you_mean(&bad_val, good_vals)
invalid_value(app, bad_val, good_vals, arg, usage, dym) ==
    LET c0 == ColorizerNew(TRUE, get_color(app))
        suffix == Pop(dym)
        good == quote_good_vals(good_vals)
        c1 == Write(start_error(c0),
                    <<N(<<>>), W(Debug(bad_val)),
                      N(<<" isn't a valid value for '">>), W(arg),
                      N(<<"'\n\t[possible values: ">>)>>)
        c2 == Write(Write(c1, JoinGood(good)), <<N(<<"]">>)>>)
        c3 == invalid_value_suffix(c2, suffix)
        c4 == try_help(put_usage(c3, usage), get_help_flag(app))
        info == <<arg, bad_val>> \o good
    IN for_app("InvalidValue", app, c4, info)

invalid_subcommand(app, subcmd, did_you_mean, name, usage) ==
    LET c0 == ColorizerNew(TRUE, get_color(app))
        c1 == Write(start_error(c0),
                    <<N(<<"The subcommand '">>), W(subcmd),
                      N(<<"' wasn't recognized", "\n\n\t", "Did you mean ">>),
                      G(did_you_mean), N(<<>>),
                      N(<<"?\n\nIf you believe you received this message in error, try re-running with '">>
                        \o name \o <<" ">>),
                      G(<<"--">>),
                      N(<<" ">> \o subcmd \o <<"'">>)>>)
        c2 == try_help(put_usage(c1, usage), get_help_flag(app))
    IN for_app("InvalidSubcommand", app, c2, <<subcmd>>)

unrecognized_subcommand(app, subcmd, name) ==
    LET c0 == ColorizerNew(TRUE, get_color(app))
        c1 == Write(start_error(c0),
                    <<N(<<" The subcommand '">>), W(subcmd),
                      N(<<"' wasn't recognized\n\n">>), W(<<"USAGE:">>),
                      N(<<"\n    ">> \o name \o <<" <subcommands>">>)>>)
        c2 == try_help(c1, get_help_flag(app))
    IN for_app("UnrecognizedSubcommand", app, c2, <<subcmd>>)

RECURSIVE RequiredLines(_)
RequiredLines(required) ==
    IF required = <<>> THEN <<>>
    ELSE <<N(<<"\n    ">>), G(Head(required))>> \o RequiredLines(Tail(required))

missing_required_argument(app, required, usage) ==
    LET c0 == ColorizerNew(TRUE, get_color(app))
        c1 == Write(start_error(c0),
                    <<N(<<"The following required arguments were not provided:">>)>>
                    \o RequiredLines(required))
        c2 == try_help(put_usage(c1, usage), get_help_flag(app))
    IN for_app("MissingRequiredArgument", app, c2, required)

missing_subcommand(app, name, usage) ==
    LET c0 == ColorizerNew(TRUE, get_color(app))
        c1 == Write(start_error(c0),
                    <<N(<<"'">>), W(name),
                      N(<<"' requires a subcommand, but one was not provided">>)>>)
        c2 == try_help(put_usage(c1, usage), get_help_flag(app))
    IN for_app("MissingSubcommand", app, c2, <<>>)

invalid_utf8(app, usage) ==
    LET c0 == ColorizerNew(TRUE, get_color(app))
        c1 == Write(start_error(c0),
                    <<N(<<"Invalid UTF-8 was detected in one or more arguments">>)>>)
        c2 == try_help(put_usage(c1, usage), get_help_flag(app))
    IN for_app("InvalidUtf8", app, c2, <<>>)

too_many_occurrences(app, arg, max_occurs, curr_occurs, usage) ==
    LET c0 == ColorizerNew(TRUE, get_color(app))
        were_provided == singular_or_plural(curr_occurs)
        max == to_string(max_occurs)
        curr == to_string(curr_occurs)
        c1 == Write(start_error(c0),
                    <<N(<<"The argument '">>), W(arg),
                      N(<<"' allows at most ">>), W(max),
                      N(<<" occurrences, but ">>), W(curr),
                      N(were_provided)>>)
        c2 == try_help(put_usage(c1, usage), get_help_flag(app))
    IN for_app("TooManyOccurrences", app, c2, <<arg, curr, max>>)

too_many_values(app, val, arg, usage) ==
    LET c0 == ColorizerNew(TRUE, get_color(app))
        c1 == Write(start_error(c0),
                    <<N(<<"The value '">>), W(val),
                      N(<<"' was provided to '">>), W(arg),
                      N(<<"' but it wasn't expecting any more values">>)>>)
        c2 == try_help(put_usage(c1, usage), get_help_flag(app))
    IN for_app("TooManyValues", app, c2, <<arg, val>>)

too_few_values(app, arg, min_vals, curr_vals, usage) ==
    LET c0 == ColorizerNew(TRUE, get_color(app))
        were_provided == singular_or_plural(curr_vals)
        min == to_string(min_vals)
        curr == to_string(curr_vals)
        c1 == Write(start_error(c0),
                    <<N(<<"The argument '">>), W(arg),
                      N(<<"' requires at least ">>), W(min),
                      N(<<" values, but only ">>), W(curr),
                      N(were_provided)>>)
        c2 == try_help(put_usage(c1, usage), get_help_flag(app))
    IN for_app("TooFewValues", app, c2, <<arg, curr, min>>)

\* e is the boxed validation failure; e.text is its Display text
value_validation_with_color(arg, val, e, color) ==
    LET c0 == ColorizerNew(TRUE, color)
        c1 == Write(start_error(c0),
                    <<N(<<"Invalid value">>), N(<<" for '">>), W(arg),
                      N(<<"'">>), N(<<": ">> \o e.text)>>)
    IN set_source(
         set_info(set_message(ErrorNew("ValueValidation"), Formatted(c1)),
                  <<arg, val, e.text>>),
         e)

value_validation(app, arg, val, e) ==
    LET e1 == with_app(value_validation_with_color(arg, val, e, get_color(app)),
                       app)
    IN [e1 EXCEPT !.inner.message =
                     Some(Formatted(try_help(@.val.c, get_help_flag(app))))]

value_validation_without_app(arg, val, e) ==
    LET e1 == value_validation_with_color(arg, val, e, "Never")
    IN [e1 EXCEPT !.inner.message =
                     Some(Formatted(c_none(@.val.c, <<"\n">>)))]

wrong_number_of_values(app, arg, num_vals, curr_vals, usage) ==
    LET c0 == ColorizerNew(TRUE, get_color(app))
        were_provided == singular_or_plural(curr_vals)
        num == to_string(num_vals)
        curr == to_string(curr_vals)
        c1 == Write(start_error(c0),
                    <<N(<<"The argument '">>), W(arg),
                      N(<<"' requires ">>), W(num),
                      N(<<" values, but ">>), W(curr),
                      N(were_provided)>>)
        c2 == try_help(put_usage(c1, usage), get_help_flag(app))
    IN for_app("WrongNumberOfValues", app, c2, <<arg, curr, num>>)

unexpected_multiple_usage(app, arg, usage) ==
    LET c0 == ColorizerNew(TRUE, get_color(app))
        c1 == Write(start_error(c0),
                    <<N(<<"The argument '">>), W(arg),
                      N(<<"' was provided more than once, but cannot be used multiple times">>)>>)
        c2 == try_help(put_usage(c1, usage), get_help_flag(app))
    IN for_app("UnexpectedMultipleUsage", app, c2, <<arg>>)

\* did_you_mean: None, or Some([flag, subcmd]) with subcmd an option
unknown_argument(app, arg, did_you_mean, usage) ==
    LET c0 == ColorizerNew(TRUE, get_color(app))
        c1 == Write(start_error(c0),
                    <<N(<<"Found argument '">>), W(arg),
                      N(<<"' which wasn't expected, or isn't valid in this context">>)>>)
        flag == <<"--">> \o did_you_mean.val.flag
        c2 == IF IsSome(did_you_mean)
              THEN IF IsSome(did_you_mean.val.subcmd)
                   THEN Write(c1, <<N(<<"\n\n\t", "Did you mean ">>),
                                    N(<<"to put '">>), G(flag),
                                    N(<<"' after the subcommand '">>),
                                    G(did_you_mean.val.subcmd.val),
                                    N(<<"'?">>)>>)
                   ELSE Write(c1, <<N(<<"\n\n\t", "Did you mean ">>),
                                    N(<<"'">>), G(flag), N(<<"'?">>)>>)
              ELSE c1
        c3 == IF starts_with_dash(arg)
              THEN c_none(c2,
                     <<"\n\n\tIf you tried to supply '">> \o arg
                     \o <<"' as a value rather than a flag, use '-- ">>
                     \o arg \o <<"'">>)
              ELSE c2
        c4 == try_help(put_usage(c3, usage), get_help_flag(app))
    IN for_app("UnknownArgument", app, c4, <<arg>>)

unnecessary_double_dash(app, arg, usage) ==
    LET c0 == ColorizerNew(TRUE, get_color(app))
        c1 == Write(start_error(c0),
                    <<N(<<"Found argument '">>), W(arg),
                      N(<<"' which wasn't expected, or isn't valid in this context">>),
                      N(<<"\n\n\tIf you tried to supply '">> \o arg
                        \o <<"' as a subcommand, remove the '--' before it.">>)>>)
        c2 == try_help(put_usage(c1, usage), get_help_flag(app))
    IN for_app("UnknownArgument", app, c2, <<arg>>)

argument_not_found_auto(arg) ==
    LET c0 == ColorizerNew(TRUE, "Never")
        c1 == Write(start_error(c0),
                    <<N(<<"The argument '">>), W(arg),
                      N(<<"' wasn't found\n">>)>>)
    IN set_info(set_message(ErrorNew("ArgumentNotFound"), Formatted(c1)),
                <<arg>>)

\* impl From<io::Error> / From<fmt::Error> for Error
from_io(e) == ErrorRaw("Io", e.text)

from_fmt(e) == ErrorRaw("Format", e.text)

(* ------------------------------- rendering ----------------------------- *)

\* Option::unwrap on as_str(): a panic is outside the model, the three
\* kinds it is called for all have a summary
Unwrap(o) == o.val

RECURSIVE ConflictLines(_)
ConflictLines(values) ==
    IF values = <<>> THEN <<>>
    ELSE <<N(<<"\n    ">>), W(Head(values))>> \o ConflictLines(Tail(values))

\* possible_values.split_last(): escape() each, ", " between
RECURSIVE JoinEscaped(_)
JoinEscaped(vals) ==
    IF vals = <<>> THEN <<>>
    ELSE IF Len(vals) = 1 THEN <<G(escape(vals[1]))>>
         ELSE <<G(escape(Head(vals))), N(<<", ">>)>> \o JoinEscaped(Tail(vals))

IsValue(o) == IsSome(o) /\ o.val.tag = "Value"

IsValues(o) == IsSome(o) /\ o.val.tag = "Values"

\* a fallback that asks the source before the kind's summary
FallbackBodySourceFirst(e) ==
    IF IsSome(e.inner.source) THEN <<N(e.inner.source.val.text)>>
    ELSE IF IsSome(as_str(kind_of(e))) THEN <<N(as_str(kind_of(e)).val)>>
         ELSE <<N(<<"Unknown cause">>)>>

\* the fallback arm of formatted(): the kind's summary, else the source's
\* to_string(), else "Unknown cause"
FallbackBody(e) ==
    IF IsSome(as_str(kind_of(e))) THEN <<N(as_str(kind_of(e)).val)>>
    ELSE IF IsSome(e.inner.source)
         THEN <<N(e.inner.source.val.text)>>
         ELSE <<N(<<"Unknown cause">>)>>

\* the body formatted() writes for the kind of e
KindBody(e) ==
    LET k == kind_of(e)
        invalid == get_context(e, "InvalidArg")
    IN CASE k = "ArgumentConflict" ->
              LET valid == get_context(e, "ValidArg")
              IN IF IsValue(invalid) /\ IsSome(valid)
                 THEN <<N(<<"The argument '">>), W(invalid.val.v),
                        N(<<"' cannot be used with">>)>>
                      \o (CASE valid.val.tag = "Values" ->
                                 <<N(<<":">>)>> \o ConflictLines(valid.val.vs)
                             [] valid.val.tag = "Value" ->
                                 <<N(<<" '">>), W(valid.val.v), N(<<"'">>)>>
                             [] OTHER ->
                                 <<N(<<" one or more of the other specified arguments">>)>>)
                 ELSE <<N(Unwrap(as_str(k)))>>
         [] k = "EmptyValue" ->
              LET possible_values == get_context(e, "ValidValue")
              IN (IF IsValue(invalid)
                  THEN <<N(<<"The argument '">>), W(invalid.val.v),
                         N(<<"' requires a value but none was supplied">>)>>
                  ELSE <<N(Unwrap(as_str(k)))>>)
                 \o (IF IsValues(possible_values)
                     THEN <<N(<<"\n\t[possible values: ">>)>>
                          \o JoinEscaped(possible_values.val.vs)
                          \o <<N(<<"]">>)>>
                     ELSE <<>>)
         [] k = "NoEquals" ->
              IF IsValue(invalid)
              THEN <<N(<<"Equal sign is needed when assigning values to '">>),
                     W(invalid.val.v), N(<<"'.">>)>>
              ELSE <<N(Unwrap(as_str(k)))>>
         [] OTHER -> FallbackBody(e)

\* the None arm of formatted(): a new buffer written from kind and context
Synthesized(e) ==
    LET c0 == ColorizerNew(use_stderr(e), e.inner.color_when)
        c1 == Write(start_error(c0), KindBody(e))
        usage == get_context(e, "Usage")
        c2 == IF IsValue(usage) THEN put_usage(c1, usage.val.v) ELSE c1
    IN try_help(c2, e.inner.help_flag)

\* a formatted() that ignores the stored message
ErrorFormattedIgnoringMessage(e) == Synthesized(e)

\* Error::formatted
ErrorFormatted(e) ==
    IF IsSome(e.inner.message)
    THEN MessageFormatted(e.inner.message.val)
    ELSE Synthesized(e)

\* what a write to a stream can come to
WriteOutcomes == {"Ok", "BrokenPipe", "OtherIoError"}

\* Colorizer::print: one write of the rendered text to the colorizer's
\* stream; `write` is what became of the write, `result` what print returns:
\* Ok, or the I/O failure of the write
ColorizerPrint(c, outcome) ==
    [stream |-> Stream(c), text |-> Rendered(c), write |-> outcome,
     result |-> outcome]

\* Error::print
ErrorPrint(e, outcome) == ColorizerPrint(ErrorFormatted(e), outcome)

\* impl Display for Error (backtrace is None without the "debug" feature)
Display(e) == Rendered(ErrorFormatted(e))

(* ------------------------------ input sets ----------------------------- *)

\* caller-supplied values: without whitespace, with whitespace inside,
\* and nothing but whitespace
Vals == {<<"a">>, <<"b", " ", "c">>, <<" ">>}

ValLists == SeqsOf(Vals, 0, MaxVals)

BadVals == {<<"x">>, <<"x", " ", "y">>}

\* Arg::to_string(): the display name of an argument
ArgNames == {<<"--opt <val>">>, <<"<file>">>}

\* argument strings as typed on the command line
RawArgs == {<<"-", "-", "a">>, <<"a">>}

SubCmds == {<<"s", "u", "b">>}

Names == {<<"prog">>}

Counts == 0..MaxCount

\* underlying failures (io::Error, fmt::Error, a validator's error) with
\* their Display text
Failures == {[text |-> <<"broken pipe">>], [text |-> <<"invalid digit">>]}

RawTexts == {<<"raw message">>}

\* the vectors suggestions::did_you_mean may return: candidates taken from
\* the valid values, best last; empty when nothing is close enough
DidYouMeanResults(good_vals) ==
    LET I == 1..Len(good_vals)
    IN {<<>>} \cup {<<good_vals[i]>> : i \in I}
             \cup {<<good_vals[p[1]], good_vals[p[2]]>> :
                     p \in {q \in I \X I : q[1] # q[2]}}

\* Option<(String, Option<String>)> handed to unknown_argument
FlagSuggestions ==
    {None} \cup {Some([flag |-> <<"a", "b">>, subcmd |-> sc]) :
                    sc \in {None} \cup {Some(x) : x \in SubCmds}}

CtxVals == {CtxNone, CtxValue(<<"a">>), CtxValues(<< <<"a">>, <<"b", " ">> >>)}

CtxPairs == {<<k, v>> : k \in ContextKind, v \in CtxVals}

\* the inputs the factories draw from: every bounded input ...
Rich ==
    [lists |-> ValLists, vals |-> Vals, bad |-> BadVals, args |-> ArgNames,
     raw |-> RawArgs, counts |-> Counts, others |-> SeqsOf(ArgNames, 0, MaxVals),
     failures |-> Failures]

\* ... or one or two of each, where only the error's life after the
\* factory is of interest
Sample ==
    [lists |-> {<<>>, << <<"a">>, <<"b", " ", "c">> >>}, vals |-> {<<"b", " ", "c">>},
     bad |-> {<<"x">>}, args |-> {<<"<file>">>}, raw |-> {<<"-", "-", "a">>},
     counts |-> {1, 2}, others |-> {<<>>, << <<"<file>">>, <<"--opt <val>">> >>},
     failures |-> {[text |-> <<"broken pipe">>]}]

NoErr == [tag |-> "NoError"]

NoCall == [op |-> "none"]

(* -------------------------------- actions ------------------------------ *)

Init ==
    /\ err = NoErr
    /\ pc = "start"
    /\ call = NoCall
    /\ stdout = <<>>
    /\ stderr = <<>>
    /\ ret = None
    /\ exits = <<>>
    /\ events = <<>>
    /\ inserted = <<>>

\* a factory returned e to its caller
Built(e, c) ==
    /\ pc = "start"
    /\ err' = e
    /\ call' = c
    /\ pc' = "built"
    /\ UNCHANGED <<stdout, stderr, ret, exits, events, inserted>>

RawErr(D) ==
    \E k \in ErrorKind, t \in RawTexts :
        Built(ErrorRaw(k, t), [op |-> "raw", kind |-> k, text |-> t])

FromIo(D) ==
    \E f \in D.failures : Built(from_io(f), [op |-> "from_io", failure |-> f])

FromFmt(D) ==
    \E f \in D.failures : Built(from_fmt(f), [op |-> "from_fmt", failure |-> f])

DisplayHelp(D) ==
    \E app \in Apps :
        Built(display_help(app, HelpColorizer(FALSE, app, <<"help text">>)),
              [op |-> "display_help", app |-> app])

DisplayHelpError(D) ==
    \E app \in Apps :
        Built(display_help_error(app, HelpColorizer(TRUE, app, <<"help text">>)),
              [op |-> "display_help_error", app |-> app])

DisplayVersion(D) ==
    \E app \in Apps :
        Built(display_version(app, HelpColorizer(FALSE, app, <<"prog 1.0\n">>)),
              [op |-> "display_version", app |-> app])

ArgumentConflict(D) ==
    \E app \in Apps, arg \in D.args, others \in D.others :
        Built(argument_conflict(app, arg, others, render_usage(app)),
              [op |-> "argument_conflict", app |-> app, arg |-> arg,
               others |-> others])

EmptyValue(D) ==
    \E app \in Apps, arg \in D.args, good_vals \in D.lists :
        Built(empty_value(app, good_vals, arg, render_usage(app)),
              [op |-> "empty_value", app |-> app, arg |-> arg,
               good_vals |-> good_vals])

NoEquals(D) ==
    \E app \in Apps, arg \in D.args :
        Built(no_equals(app, arg, render_usage(app)),
              [op |-> "no_equals", app |-> app, arg |-> arg])

InvalidValue(D) ==
    \E app \in Apps, arg \in D.args, bad_val \in D.bad,
       good_vals \in D.lists :
        \E dym \in DidYouMeanResults(good_vals) :
            Built(invalid_value(app, bad_val, good_vals, arg,
                                render_usage(app), dym),
                  [op |-> "invalid_value", app |-> app, arg |-> arg,
                   bad_val |-> bad_val, good_vals |-> good_vals,
                   candidate |-> Pop(dym)])

InvalidSubcommand(D) ==
    \E app \in Apps, subcmd \in SubCmds, dym \in D.vals, name \in Names :
        Built(invalid_subcommand(app, subcmd, dym, name, render_usage(app)),
              [op |-> "invalid_subcommand", app |-> app, subcmd |-> subcmd,
               candidate |-> Some(dym)])

UnrecognizedSubcommand(D) ==
    \E app \in Apps, subcmd \in SubCmds, name \in Names :
        Built(unrecognized_subcommand(app, subcmd, name),
              [op |-> "unrecognized_subcommand", app |-> app,
               subcmd |-> subcmd])

MissingRequiredArgument(D) ==
    \E app \in Apps, required \in D.others \ {<<>>} :
        Built(missing_required_argument(app, required, render_usage(app)),
              [op |-> "missing_required_argument", app |-> app,
               required |-> required])

MissingSubcommand(D) ==
    \E app \in Apps, name \in Names :
        Built(missing_subcommand(app, name, render_usage(app)),
              [op |-> "missing_subcommand", app |-> app])

InvalidUtf8(D) ==
    \E app \in Apps :
        Built(invalid_utf8(app, render_usage(app)),
              [op |-> "invalid_utf8", app |-> app])

TooManyOccurrences(D) ==
    \E app \in Apps, arg \in D.args, max \in D.counts, curr \in D.counts :
        Built(too_many_occurrences(app, arg, max, curr, render_usage(app)),
              [op |-> "too_many_occurrences", app |-> app, arg |-> arg,
               limit |-> max, curr |-> curr])

TooManyValues(D) ==
    \E app \in Apps, val \in D.vals, arg \in D.args :
        Built(too_many_values(app, val, arg, render_usage(app)),
              [op |-> "too_many_values", app |-> app, arg |-> arg,
               val |-> val])

TooFewValues(D) ==
    \E app \in Apps, arg \in D.args, min \in D.counts, curr \in D.counts :
        Built(too_few_values(app, arg, min, curr, render_usage(app)),
              [op |-> "too_few_values", app |-> app, arg |-> arg,
               limit |-> min, curr |-> curr])

ValueValidation(D) ==
    \E app \in Apps, arg \in D.args, val \in D.bad, f \in D.failures :
        Built(value_validation(app, arg, val, f),
              [op |-> "value_validation", app |-> app, arg |-> arg,
               val |-> val, failure |-> f])

ValueValidationWithoutApp(D) ==
    \E arg \in D.args, val \in D.bad, f \in D.failures :
        Built(value_validation_without_app(arg, val, f),
              [op |-> "value_validation_without_app", arg |-> arg,
               val |-> val, failure |-> f])

WrongNumberOfValues(D) ==
    \E app \in Apps, arg \in D.args, num \in D.counts, curr \in D.counts :
        Built(wrong_number_of_values(app, arg, num, curr, render_usage(app)),
              [op |-> "wrong_number_of_values", app |-> app, arg |-> arg,
               limit |-> num, curr |-> curr])

UnexpectedMultipleUsage(D) ==
    \E app \in Apps, arg \in D.args :
        Built(unexpected_multiple_usage(app, arg, render_usage(app)),
              [op |-> "unexpected_multiple_usage", app |-> app, arg |-> arg])

UnknownArgument(D) ==
    \E app \in Apps, arg \in D.raw, dym \in FlagSuggestions :
        Built(unknown_argument(app, arg, dym, render_usage(app)),
              [op |-> "unknown_argument", app |-> app, arg |-> arg,
               candidate |-> IF IsSome(dym) THEN Some(dym.val.flag) ELSE None,
               subcmd |-> IF IsSome(dym) THEN dym.val.subcmd ELSE None])

UnnecessaryDoubleDash(D) ==
    \E app \in Apps, arg \in D.raw :
        Built(unnecessary_double_dash(app, arg, render_usage(app)),
              [op |-> "unnecessary_double_dash", app |-> app, arg |-> arg])

ArgumentNotFoundAuto(D) ==
    \E arg \in D.raw :
        Built(argument_not_found_auto(arg),
              [op |-> "argument_not_found_auto", arg |-> arg])

\* Error::format with the owning command
Format ==
    /\ pc = "built"
    /\ \E app \in Apps :
         /\ err' = ErrorFormat(err, app)
         /\ call' = [op |-> "format", app |-> app,
                     twice |-> call.op = "format" /\ call.app = app]
    /\ UNCHANGED <<pc, stdout, stderr, ret, exits, events, inserted>>

\* one write by Colorizer::print lands on the stream it names
Emit(w) ==
    /\ stdout' = IF w.stream = "stdout" THEN Append(stdout, w) ELSE stdout
    /\ stderr' = IF w.stream = "stderr" THEN Append(stderr, w) ELSE stderr

\* Error::print called by the owner of the error; ret is what it returns
PrintError ==
    /\ pc = "built"
    /\ Len(stdout) + Len(stderr) < MaxPrints
    /\ \E o \in WriteOutcomes :
         LET w == ErrorPrint(err, o)
         IN /\ Emit(w)
            /\ ret' = Some([write |-> w.write, result |-> w.result])
    /\ call' = [op |-> "print"]
    /\ UNCHANGED <<err, pc, exits, events, inserted>>

\* Error::exit, lines 109-111 and 123-124: the print whose result is dropped
ExitPrint ==
    /\ pc = "built"
    /\ \E o \in WriteOutcomes :
         LET w == ErrorPrint(err, o)
         IN /\ Emit(w)
            /\ events' = Append(events, [ev |-> "print", write |-> w.write])
    /\ pc' = IF use_stderr(err) THEN "exit_stderr" ELSE "exit_stdout"
    /\ call' = [op |-> "exit"]
    /\ UNCHANGED <<err, ret, exits, inserted>>

\* Error::exit, lines 113-118: the prompt and the read_line().unwrap()
ExitWait ==
    /\ pc = "exit_stderr"
    /\ err.inner.wait_on_exit
    /\ stderr' = Append(stderr,
                        [stream |-> "stderr",
                         text |-> <<"\nPress [ENTER] / [RETURN] to continue...", "\n">>,
                         write |-> "Ok", result |-> "Ok"])
    /\ events' = Append(events, [ev |-> "wait"])
    /\ \E read_ok \in BOOLEAN :
         pc' = IF read_ok THEN "exit_waited" ELSE "panicked"
    /\ UNCHANGED <<err, call, stdout, ret, exits, inserted>>

\* util::safe_exit: the process ends with this status, control never returns
safe_exit(code) ==
    /\ exits' = Append(exits, code)
    /\ events' = Append(events, [ev |-> "exit", code |-> code])
    /\ pc' = "terminated"

\* Error::exit, line 120
ExitUsage ==
    /\ \/ pc = "exit_stderr" /\ ~err.inner.wait_on_exit
       \/ pc = "exit_waited"
    /\ safe_exit(USAGE_CODE)
    /\ UNCHANGED <<err, call, stdout, stderr, ret, inserted>>

\* the stdout path ending with the usage-error status
ExitSuccessWithUsageCode ==
    /\ pc = "exit_stdout"
    /\ safe_exit(USAGE_CODE)
    /\ UNCHANGED <<err, call, stdout, stderr, ret, inserted>>

\* Error::exit, line 125
ExitSuccess ==
    /\ pc = "exit_stdout"
    /\ safe_exit(SUCCESS_CODE)
    /\ UNCHANGED <<err, call, stdout, stderr, ret, inserted>>

\* Error::new, before any context is attached; the kinds are those of the
\* factories that attach context (argument_conflict, empty_value, no_equals)
NewErr ==
    \E k \in {"ArgumentConflict", "EmptyValue", "NoEquals"} :
        Built(ErrorNew(k), [op |-> "new", kind |-> k])

\* insert_context_unchecked called on the error
InsertContext ==
    /\ pc = "built"
    /\ Len(inserted) < MaxCtx
    /\ \E p \in CtxPairs :
         /\ err' = insert_context_unchecked(err, p[1], p[2])
         /\ inserted' = Append(inserted, p)
         /\ call' = [op |-> "insert_context_unchecked", pairs |-> <<p>>]
    /\ UNCHANGED <<pc, stdout, stderr, ret, exits, events>>

\* extend_context_unchecked called with an array of N = 2 pairs
ExtendContext ==
    /\ pc = "built"
    /\ Len(inserted) + 2 <= MaxCtx
    /\ \E p \in CtxPairs, q \in CtxPairs :
         /\ err' = extend_context_unchecked(err, <<p, q>>)
         /\ inserted' = inserted \o <<p, q>>
         /\ call' = [op |-> "extend_context_unchecked", pairs |-> <<p, q>>]
    /\ UNCHANGED <<pc, stdout, stderr, ret, exits, events>>

Factory(D) ==
    \/ RawErr(D) \/ FromIo(D) \/ FromFmt(D)
    \/ DisplayHelp(D) \/ DisplayHelpError(D) \/ DisplayVersion(D)
    \/ ArgumentConflict(D) \/ EmptyValue(D) \/ NoEquals(D)
    \/ InvalidValue(D) \/ InvalidSubcommand(D) \/ UnrecognizedSubcommand(D)
    \/ MissingRequiredArgument(D) \/ MissingSubcommand(D) \/ InvalidUtf8(D)
    \/ TooManyOccurrences(D) \/ TooManyValues(D) \/ TooFewValues(D)
    \/ ValueValidation(D) \/ ValueValidationWithoutApp(D)
    \/ WrongNumberOfValues(D) \/ UnexpectedMultipleUsage(D)
    \/ UnknownArgument(D) \/ UnnecessaryDoubleDash(D) \/ ArgumentNotFoundAuto(D)

Next ==
    \/ Factory(Sample)
    \/ Format
    \/ PrintError
    \/ ExitPrint \/ ExitWait \/ ExitUsage \/ ExitSuccess

Spec == Init /\ [][Next]_vars

\* the factories over every bounded input, and format
NextFactory == Factory(Rich) \/ Format

SpecFactory == Init /\ [][NextFactory]_vars

\* an error and the context entries appended to it
NextCtx == NewErr \/ InsertContext \/ ExtendContext

SpecCtx == Init /\ [][NextCtx]_vars

\* Error::new for any kind
NewOfKind ==
    \E k \in ErrorKind : Built(ErrorNew(k), [op |-> "new", kind |-> k])

\* what a caller hands to set_message: a string or a colorizer
GivenMessages ==
    {MessageFromString(t) : t \in RawTexts}
    \cup {MessageFromColorizer(
             c_none(start_error(ColorizerNew(TRUE, "Auto")), <<"styled message">>))}

\* set_message called on the error
SetMessage ==
    /\ pc = "built"
    /\ \E m \in GivenMessages :
         /\ err' = set_message(err, m)
         /\ call' = [op |-> "set_message", message |-> m,
                     replaced |-> err.inner.message]
    /\ UNCHANGED <<pc, stdout, stderr, ret, exits, events, inserted>>

\* set_source called on an error that has no source yet
SetSource ==
    /\ pc = "built"
    /\ ~IsSome(source(err))
    /\ \E f \in Sample.failures :
         /\ err' = set_source(err, f)
         /\ call' = [op |-> "set_source", failure |-> f]
    /\ UNCHANGED <<pc, stdout, stderr, ret, exits, events, inserted>>

\* with_app called on the error
WithApp ==
    /\ pc = "built"
    /\ \E app \in Apps :
         /\ err' = with_app(err, app)
         /\ call' = [op |-> "with_app", app |-> app]
    /\ UNCHANGED <<pc, stdout, stderr, ret, exits, events, inserted>>

\* context entries as the factories attach them: the argument's name, no
\* other argument named, the usage
RenderPairs ==
    {<<"InvalidArg", CtxValue(a)>> : a \in Sample.args}
    \cup {<<"ValidArg", CtxNone>>}
    \cup {<<"Usage", CtxValue(<<"USAGE:\n    prog [OPTIONS]">>)>>}

\* insert_context_unchecked with an entry of a kind the error has not yet
AttachContext ==
    /\ pc = "built"
    /\ \E p \in RenderPairs :
         /\ ~IsSome(get_context(err, p[1]))
         /\ err' = insert_context_unchecked(err, p[1], p[2])
         /\ inserted' = Append(inserted, p)
         /\ call' = [op |-> "insert_context_unchecked", pairs |-> <<p>>]
    /\ UNCHANGED <<pc, stdout, stderr, ret, exits, events>>

\* impl Display for Error: the text of formatted(), the error borrowed
Render ==
    /\ pc = "built"
    /\ call' = [op |-> "render", out |-> Display(err)]
    /\ UNCHANGED <<err, pc, stdout, stderr, ret, exits, events, inserted>>

\* an error made by Error::new and the crate's mutators, formatted and
\* rendered in any order
NextRender ==
    \/ NewOfKind
    \/ SetMessage \/ SetSource \/ WithApp \/ AttachContext
    \/ Format
    \/ Render

SpecRender == Init /\ [][NextRender]_vars

(* ================================ claims =============================== *)

StdoutKinds == {"DisplayHelp", "DisplayVersion"}

HasErr == pc # "start"

\* C1: use_stderr() is false for an error of kind DisplayHelp or
\* DisplayVersion and true for an error of any other kind, whichever way
\* the error was made.
C1_UseStderrByKind ==
    HasErr =>
        /\ err.kind \in ErrorKind
        /\ kind_of(err) = err.kind
        /\ use_stderr(err) = (err.kind \notin StdoutKinds)

\* an error of the third help kind exists, and it goes to stderr
C1_Witness ==
    /\ HasErr
    /\ err.kind = "DisplayHelpOnMissingArgumentOrSubcommand"
    /\ use_stderr(err)

\* C2: exit() requests status 2 when use_stderr() is true and status 0 when
\* it is false; it never requests another status, and never two.
C2_ExitCode ==
    /\ Len(exits) <= 1
    /\ \A i \in DOMAIN exits :
          exits[i] = IF err.kind \in StdoutKinds THEN 0 ELSE 2
    /\ (pc = "terminated") = (Len(exits) = 1)

\* exit() of a help or version error has requested status 0
C2_Witness ==
    /\ pc = "terminated"
    /\ err.kind \in StdoutKinds
    /\ exits = <<0>>

\* C3: every message print() or exit() writes goes to stdout when the kind
\* is DisplayHelp or DisplayVersion and to stderr otherwise, however the
\* error was constructed.
C3_StreamFollowsKind ==
    /\ \A i \in DOMAIN stdout : err.kind \in StdoutKinds
    /\ \A i \in DOMAIN stderr : err.kind \notin StdoutKinds

\* C4: an error converted from an I/O (formatting) failure has kind Io
\* (Format) and source() returns that failure.
C4_SourceRetained ==
    (pc = "built" /\ call.op \in {"from_io", "from_fmt"}) =>
        /\ kind_of(err) = (IF call.op = "from_io" THEN "Io" ELSE "Format")
        /\ source(err) = Some(call.failure)

\* C7: a broken pipe is the one write failure that is swallowed: print()
\* returns success when the write fails with a broken pipe and returns the
\* failure for any other write error, and exit() goes on past a failed print
\* only when the failure was a broken pipe.
C7_OnlyBrokenPipeSwallowed ==
    /\ (call.op = "print" /\ IsSome(ret)) =>
          ret.val.result =
              (IF ret.val.write = "BrokenPipe" THEN "Ok" ELSE ret.val.write)
    /\ \A i, j \in DOMAIN events :
          (i < j /\ events[i].ev = "print") =>
              events[i].write \in {"Ok", "BrokenPipe"}

\* the value handed over with the earliest insert of kind k, if any
FirstInserted(k) ==
    LET I == {i \in DOMAIN inserted : inserted[i][1] = k}
    IN IF I = {} THEN None
       ELSE Some(inserted[CHOOSE i \in I : \A j \in I : i <= j][2])

\* C5: after any sequence of insert_context_unchecked and
\* extend_context_unchecked calls the context holds every inserted entry, in
\* insertion order, and get_context(k) is the value of the earliest entry of
\* kind k, absent if there is none.
C5_FirstMatch ==
    pc = "built" =>
        /\ context(err) = inserted
        /\ \A k \in ContextKind : get_context(err, k) = FirstInserted(k)

\* a kind was inserted twice with different values and the first one is found
C5_Witness ==
    /\ pc = "built"
    /\ \E i, j \in DOMAIN inserted :
          /\ i < j
          /\ inserted[i][1] = inserted[j][1]
          /\ inserted[i][2] # inserted[j][2]
          /\ get_context(err, inserted[i][1]) = Some(inserted[i][2])
          /\ Len(context(err)) = Len(inserted)

\* C6: format is idempotent.  A format step leaves an already Formatted
\* message as it is; formatting again with the same command changes neither
\* the error nor its rendered output; and a second Error::format with the
\* same command leaves the error as the first one left it.
C6_FormatIdempotent ==
    [][(call'.op = "format" /\ call' # call) =>
          LET m == err.inner.message
              m1 == err'.inner.message
          IN /\ (IsSome(m) /\ m.val.tag = "Formatted") => m1 = m
             /\ IsSome(m1) =>
                   /\ MessageFormat(m1.val, call'.app, render_usage(call'.app))
                        = m1.val
                   /\ Rendered(MessageFormatted(
                          MessageFormat(m1.val, call'.app,
                                        render_usage(call'.app))))
                        = Rendered(MessageFormatted(m1.val))
             /\ ErrorFormat(err', call'.app) = err'
             /\ call'.twice => err' = err]_vars

\* a Raw message was formatted, then formatted again with the same command
C6_Witness ==
    /\ call.op = "format"
    /\ call.twice
    /\ IsSome(err.inner.message)
    /\ err.inner.message.val.tag = "Formatted"
    /\ EndsWith(Display(err), <<"\n">>)
    /\ Contains(Display(err), <<"raw message">>)

DidYouMeanLine == <<"\n\n\t", "Did you mean ">>

\* the text after the first occurrence of tok in s
RECURSIVE After(_, _)
After(s, tok) ==
    IF s = <<>> THEN <<>>
    ELSE IF Head(s) = tok THEN Tail(s) ELSE After(Tail(s), tok)

SuggestingOps == {"invalid_value", "invalid_subcommand", "unknown_argument"}

KindOfOp(op) ==
    CASE op = "invalid_value" -> "InvalidValue"
      [] op = "invalid_subcommand" -> "InvalidSubcommand"
      [] op = "unknown_argument" -> "UnknownArgument"

\* C8: the message of invalid_value, invalid_subcommand and unknown_argument
\* has a "Did you mean" line, naming the candidate, exactly when a candidate
\* is available; without one the line is left out and the error is an
\* ordinary error of the same kind.
C8_DidYouMean ==
    (pc = "built" /\ call.op \in SuggestingOps) =>
        LET out == Display(err)
        IN /\ Contains(out, DidYouMeanLine) = IsSome(call.candidate)
           /\ IsSome(call.candidate) =>
                 Contains(After(out, "Did you mean "), call.candidate.val)
           /\ kind_of(err) = KindOfOp(call.op)
           /\ err.kind = KindOfOp(call.op)
           /\ IsSome(err.inner.message)
           /\ err.inner.message.val.tag = "Formatted"
           /\ SubSeq(out, 1, 2) = <<"error:", " ">>

\* invalid_value was given valid values, none of them close: no line
C8_Witness ==
    /\ pc = "built"
    /\ call.op = "invalid_value"
    /\ call.good_vals # <<>>
    /\ ~IsSome(call.candidate)
    /\ ~Contains(Display(err), DidYouMeanLine)

Quoted(v) == <<"\"">> \o v \o <<"\"">>

HasSpace(v) == \E i \in DOMAIN v : v[i] = " "

Shown(v) == IF HasSpace(v) THEN Quoted(v) ELSE v

\* C9: invalid_value returns an InvalidValue error whose info is the
\* argument's name, the bad value, then every valid value in the given
\* order, quoted if it contains whitespace and unchanged if not; the message
\* contains the usage string and every valid value.
C9_InvalidValueInfo ==
    (pc = "built" /\ call.op = "invalid_value") =>
        LET out == Display(err)
            gv == call.good_vals
        IN /\ err.kind = "InvalidValue"
           /\ kind_of(err) = "InvalidValue"
           /\ Len(err.info) = 2 + Len(gv)
           /\ err.info[1] = call.arg
           /\ err.info[2] = call.bad_val
           /\ \A i \in DOMAIN gv : err.info[2 + i] = Shown(gv[i])
           /\ Contains(out, render_usage(call.app))
           /\ \A i \in DOMAIN gv : Contains(out, gv[i])

\* two valid values, the first with whitespace and the second without
C9_Witness ==
    /\ pc = "built"
    /\ call.op = "invalid_value"
    /\ Len(call.good_vals) = 2
    /\ HasSpace(call.good_vals[1])
    /\ ~HasSpace(call.good_vals[2])
    /\ err.info[3] = Quoted(call.good_vals[1])
    /\ err.info[4] = call.good_vals[2]

CountingOps == {"too_many_occurrences", "too_few_values", "wrong_number_of_values"}

\* C10: the count clause of too_many_occurrences, too_few_values and
\* wrong_number_of_values shows the current count n and ends " were
\* provided" exactly when n > 1, " was provided" when n is 0 or 1.
C10_SingularOrPlural ==
    (pc = "built" /\ call.op \in CountingOps) =>
        LET out == Display(err)
            n == call.curr
        IN /\ Contains(out, <<" were provided">>) = (n > 1)
           /\ Contains(out, <<" was provided">>) = (n <= 1)
           /\ Contains(out, <<DigitChars[n + 1],
                               IF n > 1 THEN " were provided"
                               ELSE " was provided">>)

\* a count of zero is reported in the singular
C10_Witness ==
    /\ pc = "built"
    /\ call.op = "too_few_values"
    /\ call.curr = 0
    /\ Contains(Display(err), <<"0", " was provided">>)

RECURSIVE ShownList(_)
ShownList(vs) ==
    IF vs = <<>> THEN <<>>
    ELSE IF Len(vs) = 1 THEN Shown(vs[1])
         ELSE Shown(Head(vs)) \o <<", ">> \o ShownList(Tail(vs))

PossibleValuesOpen == <<"\n\t[possible values: ">>

\* C11: the rendering of an empty_value error has a possible-values block
\* exactly when the list of valid values given to the factory is not empty;
\* the block lists the values in the given order, a value with whitespace
\* quoted and a value without whitespace as it is.
C11_EmptyValuePossibleValues ==
    (pc = "built" /\ call.op = "empty_value") =>
        LET out == Display(err)
            gv == call.good_vals
        IN /\ Contains(out, PossibleValuesOpen) = (gv # <<>>)
           /\ gv # <<>> =>
                Contains(out, PossibleValuesOpen \o ShownList(gv) \o <<"]">>)

\* two valid values, one with whitespace shown quoted before one shown bare
C11_Witness ==
    /\ pc = "built"
    /\ call.op = "empty_value"
    /\ Len(call.good_vals) = 2
    /\ HasSpace(call.good_vals[1])
    /\ ~HasSpace(call.good_vals[2])
    /\ Contains(Display(err),
                PossibleValuesOpen \o Quoted(call.good_vals[1]) \o <<", ">>
                \o call.good_vals[2] \o <<"]">>)

FactoryOps ==
    {"raw", "from_io", "from_fmt", "display_help", "display_help_error",
     "display_version", "argument_conflict", "empty_value", "no_equals",
     "invalid_value", "invalid_subcommand", "unrecognized_subcommand",
     "missing_required_argument", "missing_subcommand", "invalid_utf8",
     "too_many_occurrences", "too_many_values", "too_few_values",
     "value_validation", "value_validation_without_app",
     "wrong_number_of_values", "unexpected_multiple_usage",
     "unknown_argument", "unnecessary_double_dash", "argument_not_found_auto"}

\* raw, and the From conversions, which are calls of raw
RawOps == {"raw", "from_io", "from_fmt"}

\* the factories that leave the rendering to kind and context
ContextOps == {"argument_conflict", "empty_value", "no_equals"}

MessageTag(e) ==
    IF IsSome(e.inner.message) THEN e.inner.message.val.tag ELSE "None"

\* C12 as stated: the error a factory returns holds a message, which is Raw
\* when the factory is raw or argument_not_found_auto and Formatted when it
\* is any other factory.
C12_EagerExceptTwo ==
    (pc = "built" /\ call.op \in FactoryOps) =>
        MessageTag(err) = IF call.op \in RawOps \cup {"argument_not_found_auto"}
                          THEN "Raw" ELSE "Formatted"

\* C12, amended: the error raw returns holds a Raw message; the error
\* argument_conflict, empty_value or no_equals returns holds no message;
\* the error any other factory returns, argument_not_found_auto included,
\* holds a Formatted message.
C12_MessageByFactory ==
    (pc = "built" /\ call.op \in FactoryOps) =>
        MessageTag(err) = CASE call.op \in RawOps -> "Raw"
                            [] call.op \in ContextOps -> "None"
                            [] OTHER -> "Formatted"

\* argument_conflict has returned an error with context and no message
C12_Witness ==
    /\ pc = "built"
    /\ call.op = "argument_conflict"
    /\ ~IsSome(err.inner.message)
    /\ IsSome(get_context(err, "InvalidArg"))

StartsWith(s, pre) == Len(pre) <= Len(s) /\ SubSeq(s, 1, Len(pre)) = pre

ErrorHead == <<"error:", " ">>

BespokeKinds == {"ArgumentConflict", "EmptyValue", "NoEquals"}

\* the text of the first Usage entry, after a blank line
UsageText(e) ==
    LET u == get_context(e, "Usage")
    IN IF IsSome(u) /\ u.val.tag = "Value" THEN <<"\n\n">> \o u.val.v ELSE <<>>

\* the help hint, or the bare line end when the error has no help flag
HelpText(e) ==
    IF IsSome(e.inner.help_flag)
    THEN <<"\n\nFor more information try ">> \o e.inner.help_flag.val \o <<"\n">>
    ELSE <<"\n">>

\* summary of the kind, else text of the source, else "Unknown cause"
FallbackText(e) ==
    IF IsSome(as_str(kind_of(e))) THEN as_str(kind_of(e)).val
    ELSE IF IsSome(source(e)) THEN source(e).val.text
         ELSE <<"Unknown cause">>

\* the context a bespoke branch needs to name the argument
HasBespokeContext(e) ==
    LET invalid == get_context(e, "InvalidArg")
    IN /\ IsSome(invalid) /\ invalid.val.tag = "Value"
       /\ kind_of(e) = "ArgumentConflict" => IsSome(get_context(e, "ValidArg"))

BespokeOpening(k) ==
    IF k = "NoEquals"
    THEN <<"Equal sign is needed when assigning values to '">>
    ELSE <<"The argument '">>

\* out is a rendering driven by the kind of e: the marker, the bespoke
\* sentence naming the argument for the three kinds with a branch of their
\* own and the fallback body for any other kind, then the usage and the
\* help hint
KindDriven(e, out) ==
    LET rest == UsageText(e) \o HelpText(e)
    IN IF kind_of(e) \in BespokeKinds
       THEN /\ EndsWith(out, rest)
            /\ StartsWith(out,
                  ErrorHead \o
                  (IF HasBespokeContext(e)
                   THEN BespokeOpening(kind_of(e))
                        \o get_context(e, "InvalidArg").val.v
                   ELSE as_str(kind_of(e)).val))
       ELSE out = ErrorHead \o FallbackText(e) \o rest

\* C13 as stated: formatted() returns the stored buffer as it is when the
\* message is Formatted; when the message is Raw, and when there is no
\* message, the rendering is driven by the kind.
C13_RawSynthesized ==
    pc = "built" =>
        IF MessageTag(err) = "Formatted"
        THEN ErrorFormatted(err) = err.inner.message.val.c
        ELSE KindDriven(err, Display(err))

\* C13, amended: formatted() returns the stored buffer as it is when the
\* message is Formatted; when the message is Raw the rendering is the
\* marker and the raw text and nothing else; only when there is no message
\* is the rendering driven by the kind.
C13_Formatted ==
    pc = "built" =>
        CASE MessageTag(err) = "Formatted" ->
               ErrorFormatted(err) = err.inner.message.val.c
          [] MessageTag(err) = "Raw" ->
               Display(err) = ErrorHead \o err.inner.message.val.s
          [] OTHER -> KindDriven(err, Display(err))

\* a Raw message on an error of a kind with a summary, with a usage entry
\* and a help flag: the rendering has none of the three
C13_Witness ==
    /\ pc = "built"
    /\ MessageTag(err) = "Raw"
    /\ IsSome(as_str(kind_of(err)))
    /\ UsageText(err) # <<>>
    /\ IsSome(err.inner.help_flag)
    /\ ~KindDriven(err, Display(err))

\* C14: rendering an error whose message is Raw gives a buffer that is
\* never colored and holds the marker, a space and the raw text, without
\* usage and without help hint, whatever the kind, the context and the
\* color of the error; the error is left as it was, its message Raw, and
\* rendering it again gives the same text.
C14_RawRendering ==
    [][(pc = "built" /\ MessageTag(err) = "Raw" /\ call'.op = "render") =>
         /\ call'.out = ErrorHead \o err.inner.message.val.s
         /\ ErrorFormatted(err).color_when = "Never"
         /\ err' = err
         /\ MessageTag(err') = "Raw"
         /\ Display(err') = call'.out]_vars

\* a Raw message rendered on an error that has a usage entry, a help flag
\* and the color Always
C14_Witness ==
    /\ pc = "built"
    /\ call.op = "render"
    /\ MessageTag(err) = "Raw"
    /\ IsSome(get_context(err, "Usage"))
    /\ IsSome(err.inner.help_flag)
    /\ err.inner.color_when = "Always"
    /\ call.out = ErrorHead \o err.inner.message.val.s

\* C15: when the rendering is synthesized for an error of a kind other than
\* ArgumentConflict, EmptyValue and NoEquals, the body is the summary of
\* the kind if the kind has one, whether or not there is a source; else the
\* text of the source if there is one; else "Unknown cause". The usage
\* entry, if there is one, follows the body and the help hint comes last.
C15_FallbackPriority ==
    (pc = "built" /\ MessageTag(err) = "None"
       /\ kind_of(err) \notin BespokeKinds) =>
        LET out == Display(err)
            body == CASE IsSome(as_str(kind_of(err))) -> as_str(kind_of(err)).val
                      [] IsSome(source(err)) -> source(err).val.text
                      [] OTHER -> <<"Unknown cause">>
        IN /\ out = ErrorHead \o body \o UsageText(err) \o HelpText(err)
           /\ StartsWith(out, ErrorHead \o body)
           /\ EndsWith(out, HelpText(err))

\* a kind with a summary and a source as well: the summary is the body,
\* the usage follows it and the help hint ends the text
C15_Witness ==
    /\ pc = "built"
    /\ MessageTag(err) = "None"
    /\ kind_of(err) = "ValueValidation"
    /\ IsSome(source(err))
    /\ UsageText(err) # <<>>
    /\ IsSome(err.inner.help_flag)
    /\ Display(err) = ErrorHead \o as_str("ValueValidation").val
                       \o UsageText(err) \o HelpText(err)
    /\ ~Contains(Display(err), source(err).val.text)

\* C16 as stated: no operation on an error turns a Formatted message back
\* into a Raw one; once Formatted, the message is Formatted ever after.
C16_NeverBackToRaw ==
    [][(pc = "built" /\ MessageTag(err) = "Formatted") =>
         MessageTag(err') = "Formatted"]_vars

\* C16, amended: set_message stores the message it is given, Raw for a
\* string, whatever message was there. Every other operation leaves a
\* Formatted message as it is and leaves an error without message without
\* one; a Raw message is left as it is by all of them but format, which
\* makes it Formatted.
C16_OneWayButSetMessage ==
    [][pc = "built" =>
         IF call'.op = "set_message"
         THEN err'.inner.message = Some(call'.message)
         ELSE CASE MessageTag(err) = "Raw" ->
                     \/ err'.inner.message = err.inner.message
                     \/ call'.op = "format" /\ MessageTag(err') = "Formatted"
                [] OTHER -> err'.inner.message = err.inner.message]_vars

\* set_message with a string has put a Raw message where a Formatted one was
C16_Witness ==
    /\ pc = "built"
    /\ call.op = "set_message"
    /\ IsSome(call.replaced)
    /\ call.replaced.val.tag = "Formatted"
    /\ MessageTag(err) = "Raw"

InExit == pc \in {"exit_stderr", "exit_stdout", "exit_waited", "panicked", "terminated"}

\* the steps of exit() so far are one print, then a wait only for an error
\* that goes to stderr and has wait_on_exit set, then the termination request
ExitTraceOrdered ==
    InExit =>
        /\ events # <<>>
        /\ events[1].ev = "print"
        /\ \A i \in DOMAIN events :
              /\ events[i].ev = "print" => i = 1
              /\ events[i].ev = "wait" =>
                    /\ i = 2
                    /\ use_stderr(err)
                    /\ err.inner.wait_on_exit
              /\ events[i].ev = "exit" => i = Len(events) /\ i > 1
        /\ kind_of(err) \in StdoutKinds =>
              \A i \in DOMAIN events : events[i].ev # "wait"
        /\ pc = "terminated" => events[Len(events)].ev = "exit"

\* exit() has made the termination request or has a step left to take
ExitGoesOn ==
    InExit => (pc = "terminated" \/ ENABLED (ExitWait \/ ExitUsage \/ ExitSuccess))

\* C17: in exit() the message is printed exactly once, before the
\* termination request; the wait for a keypress happens only when
\* use_stderr() and wait_on_exit are both true, after the print and before
\* the termination request, never for DisplayHelp or DisplayVersion; and
\* exit() always gets to the termination request.
C17_ExitAlwaysTerminates == ExitTraceOrdered /\ ExitGoesOn

====
